---- MODULE Spec2Model ----
(***************************************************************************)
(* Model of shortcut_server.py: the API client make_shortcut_request with  *)
(* its safety policy, the resource formatters, the tool catalog and the    *)
(* dispatcher handle_call_tool.                                            *)
(*                                                                         *)
(* Python values are modelled as follows.                                  *)
(*   - a JSON scalar is a tagged record (Str, Num, None) so that Python    *)
(*     truthiness ("" and 0 and None are falsy) can be computed;           *)
(*   - a dict is a function from a set of keys; an Optional[dict] is       *)
(*     wrapped as [present, map];                                          *)
(*   - a str built by an f-string or by "+" is the sequence of its pieces; *)
(*     a literal piece is Lit(s), a formatted record is a record with a    *)
(*     kind field;                                                         *)
(*   - an endpoint is the sequence of its characters, so that endswith is  *)
(*     computed on characters;                                             *)
(*   - an exception is [type, fault, msg]: type is the Python class that   *)
(*     decides which except clause catches it, fault names the raising     *)
(*     statement in the terms of the error taxonomy.                       *)
(***************************************************************************)
EXTENDS Integers, Sequences, FiniteSets, TLC

VARIABLES
    token,      \* SHORTCUT_API_TOKEN is set to a non-empty value
    op,         \* the last operation: "init", "request" or "callTool"
    name,       \* the tool name of the last handle_call_tool
    arguments,  \* the arguments of the last handle_call_tool
    requests,   \* the calls of make_shortcut_request made by the last operation
    result,     \* what the last operation returned or raised
    steps,      \* the number of operations so far
    creates,    \* the number of create-* invocations with schema-valid arguments
    posts,      \* the number of POST calls the dispatcher made of the API client
    valid       \* every invocation so far named a catalog tool with schema-valid arguments

vars == <<token, op, name, arguments, requests, result, steps, creates, posts, valid>>

\* ------------------------------------------------------------------ bounds
\* Largest number of records a remote list reply carries.
MaxRecords == 11

\* Largest number of operations in one behaviour.
MaxCalls == 2

\* ------------------------------------------------------------ Python values
Str(s) == [t |-> "str", s |-> s, n |-> 0]

Num(n) == [t |-> "num", s |-> "", n |-> n]

None == [t |-> "none", s |-> "", n |-> 0]

\* bool(v) of a scalar
Truthy(v) == IF v.t = "str" THEN v.s # "" ELSE IF v.t = "num" THEN v.n # 0 ELSE FALSE

EmptyDict == <<>>

NoDict == [present |-> FALSE, map |-> EmptyDict]

Dict(m) == [present |-> TRUE, map |-> m]

\* bool(d) of an Optional[dict]: None and {} are falsy
DictTruthy(d) == d.present /\ DOMAIN d.map # {}

\* d.get(k) of a dict of scalars
GetArg(d, k) == IF k \in DOMAIN d THEN d[k] ELSE None

\* d.get(k, default)
Get(d, k, default) == IF k \in DOMAIN d THEN d[k] ELSE default

Lit(s) == [lit |-> s]

\* str(v) inside an f-string
Render(v) == Lit(IF v.t = "str" THEN v.s ELSE IF v.t = "num" THEN ToString(v.n) ELSE "None")

RECURSIVE Join(_, _)
\* sep.join(items)
Join(items, sep) ==
    IF Len(items) = 0 THEN <<>>
    ELSE IF Len(items) = 1 THEN <<items[1]>>
    ELSE <<items[1], sep>> \o Join(Tail(items), sep)

\* ---------------------------------------------------------------- endpoints
EP_stories == <<"s","t","o","r","i","e","s">>

EP_epics == <<"e","p","i","c","s">>

EP_objectives == <<"o","b","j","e","c","t","i","v","e","s">>

EP_projects == <<"p","r","o","j","e","c","t","s">>

EP_workflows == <<"w","o","r","k","f","l","o","w","s">>

EP_search_stories == <<"s","e","a","r","c","h","/">> \o EP_stories

EP_stories_1 == EP_stories \o <<"/","1">>

EP_epics_1 == EP_epics \o <<"/","1">>

EP_epics_1_stories == EP_epics_1 \o <<"/">> \o EP_stories

EP_empty == <<>>

\* endpoints handed to the API client directly
Endpoints == {EP_stories, EP_epics, EP_objectives, EP_projects, EP_workflows,
              EP_search_stories, EP_stories_1, EP_epics_1, EP_epics_1_stories, EP_empty}

Methods == {"GET", "POST", "PUT", "DELETE"}

\* --------------------------------------------------------------- exceptions
NoExc == [type |-> "", fault |-> "", msg |-> <<>>]

Exc(type, fault, msg) == [type |-> type, fault |-> fault, msg |-> msg]

\* the classes caught by "except httpx.HTTPError"
IsHTTPError(e) == e.type \in {"HTTPStatusError", "TimeoutException"}

\* ---------------------------------------------------------------- the remote
\* A reply of the remote API: a 2xx reply with n records of which record
\* number bad (0: none) lacks its name field, a 422 reply, or a timeout.
OkReply(n, bad) == [kind |-> "ok", n |-> n, bad |-> bad]

StatusReply == [kind |-> "status", n |-> 422, bad |-> 0]

TimeoutReply == [kind |-> "timeout", n |-> 0, bad |-> 0]

\* the lengths of the lists the remote returns: short ones, and the ones around
\* the bound of the slice stories[:10]
RecordCounts == {0, 1, 2} \cup (9..MaxRecords)

ListReplies == {OkReply(n, 0) : n \in RecordCounts}
                 \cup {OkReply(n, n) : n \in RecordCounts \ {0}}
                 \cup {OkReply(n, 1) : n \in {2}}
                 \cup {StatusReply, TimeoutReply}

OneReplies == {OkReply(1, 0), OkReply(1, 1), StatusReply, TimeoutReply}

\* record number i of a reply
Record(endpoint, i, isBad) ==
    IF endpoint = EP_workflows
    THEN IF isBad THEN [id |-> 100 + i, states |-> <<[id |-> 500 + i, name |-> "Done"]>>]
         ELSE [id |-> 100 + i, name |-> "N", states |-> <<[id |-> 500 + i, name |-> "Done"]>>]
    ELSE IF isBad THEN [id |-> 100 + i]
         ELSE [id |-> 100 + i, name |-> "N"]

Records(endpoint, reply) == [i \in 1..reply.n |-> Record(endpoint, i, i = reply.bad)]

\* the decoded JSON body of a 2xx reply
Body(method, endpoint, reply) ==
    IF method = "POST" THEN Record(endpoint, 1, reply.bad = 1)
    ELSE IF endpoint = EP_search_stories THEN [data |-> Records(endpoint, reply)]
    ELSE Records(endpoint, reply)

\* --------------------------------------------------------------- API client
AllowedMethods == {"GET", "POST"}

CreationSuffixes == {EP_stories, EP_epics, EP_objectives}

EndsWith_startswith(s, x) == Len(s) >= Len(x) /\ SubSeq(s, 1, Len(x)) = x

\* endpoint.endswith(x)
EndsWith(s, x) == Len(s) >= Len(x) /\ SubSeq(s, Len(s) - Len(x) + 1, Len(s)) = x

Raise(e, sent) == [ok |-> FALSE, value |-> <<>>, exc |-> e, sent |-> sent]

Return(v) == [ok |-> TRUE, value |-> v, exc |-> NoExc, sent |-> TRUE]

\* make_shortcut_request(method, endpoint, json, params) when the remote
\* would answer with reply; sent tells whether client.request was reached.
make_shortcut_request(method, endpoint, json, params, reply) ==
    IF method \notin AllowedMethods
    THEN Raise(Exc("ValueError", "PolicyViolation",
                   <<Lit("Method "), Lit(method),
                     Lit(" is not allowed for safety reasons. Only GET and POST are permitted.")>>), FALSE)
    ELSE IF method = "POST" /\ ~ \E x \in CreationSuffixes : EndsWith(endpoint, x)
    THEN Raise(Exc("ValueError", "PolicyViolation",
                   <<Lit("POST requests are only allowed for creation endpoints, not for "),
                     [endpoint |-> endpoint]>>), FALSE)
    ELSE IF ~token
    THEN Raise(Exc("ValueError", "ConfigurationError",
                   <<Lit("SHORTCUT_API_TOKEN environment variable not set")>>), FALSE)
    ELSE IF reply.kind = "timeout"
    THEN Raise(Exc("TimeoutException", "RemoteError", <<Lit("timed out")>>), TRUE)
    ELSE IF reply.kind = "status"
    THEN Raise(Exc("HTTPStatusError", "RemoteError",
                   <<Lit("Client error "), Lit(ToString(reply.n))>>), TRUE)
    ELSE Return(Body(method, endpoint, reply))

\* the record of one call of the API client
Call(method, endpoint, json, params, out) ==
    [method |-> method, endpoint |-> endpoint, json |-> json, params |-> params,
     ok |-> out.ok, value |-> out.value, fault |-> out.exc.fault, sent |-> out.sent]

\* --------------------------------------------------------------- formatters
KeyErr(k) == [keyerror |-> k]

IsKeyErr(f) == "keyerror" \in DOMAIN f

format_objective(objective) ==
    IF "name" \notin DOMAIN objective THEN KeyErr("name")
    ELSE [kind |-> "Objective", name |-> objective.name,
          status |-> Get(objective, "status", "Unknown"),
          description |-> Get(objective, "description", "No description"),
          url |-> Get(objective, "app_url", "")]

format_epic(epic) ==
    IF "name" \notin DOMAIN epic THEN KeyErr("name")
    ELSE [kind |-> "Epic", name |-> epic.name,
          status |-> Get(epic, "state", "Unknown"),
          description |-> Get(epic, "description", "No description"),
          milestone |-> Get(Get(epic, "milestone", EmptyDict), "name", "None"),
          url |-> Get(epic, "app_url", "")]

format_story(story) ==
    IF "id" \notin DOMAIN story THEN KeyErr("id")
    ELSE IF "name" \notin DOMAIN story THEN KeyErr("name")
    ELSE [kind |-> "Story", id |-> story.id, name |-> story.name,
          status |-> Get(Get(story, "workflow_state", EmptyDict), "name", "Unknown"),
          type |-> Get(story, "story_type", "Unknown"),
          description |-> Get(story, "description", "No description"),
          url |-> Get(story, "app_url", "")]

\* the f-string of the list-projects loop
format_project(project) ==
    IF "id" \notin DOMAIN project THEN KeyErr("id")
    ELSE IF "name" \notin DOMAIN project THEN KeyErr("name")
    ELSE [kind |-> "Project", id |-> project.id, name |-> project.name,
          description |-> Get(project, "description", "No description")]

format_state(state) ==
    IF "name" \notin DOMAIN state THEN KeyErr("name")
    ELSE IF "id" \notin DOMAIN state THEN KeyErr("id")
    ELSE [kind |-> "State", id |-> state.id, name |-> state.name]

\* the body of the list-workflows loop
format_workflow(workflow) ==
    LET states == [i \in 1..Len(Get(workflow, "states", <<>>)) |->
                      format_state(Get(workflow, "states", <<>>)[i])]
    IN  IF \E i \in 1..Len(states) : IsKeyErr(states[i])
        THEN states[CHOOSE i \in 1..Len(states) :
                       IsKeyErr(states[i]) /\ \A j \in 1..(i - 1) : ~IsKeyErr(states[j])]
        ELSE IF "name" \notin DOMAIN workflow THEN KeyErr("name")
        ELSE [kind |-> "Workflow", name |-> workflow.name, states |-> Join(states, Lit("\n"))]

\* ------------------------------------------------------------- tool catalog
ToolNames == {"search-stories", "create-story", "list-projects", "list-workflows",
              "list-objectives", "create-objective", "list-epics", "create-epic"}

\* inputSchema["properties"]
Properties(tool) ==
    CASE tool = "search-stories" -> {"query"}
      [] tool = "create-story" -> {"name", "description", "story_type", "project_id"}
      [] tool = "list-objectives" -> {"status"}
      [] tool = "create-objective" -> {"name", "description", "status"}
      [] tool = "list-epics" -> {"status"}
      [] tool = "create-epic" -> {"name", "description", "milestone_id"}
      [] OTHER -> {}

\* inputSchema["required"]
Required(tool) ==
    CASE tool = "search-stories" -> {"query"}
      [] tool = "create-story" -> {"name", "description", "story_type", "project_id"}
      [] tool = "create-objective" -> {"name", "description", "status"}
      [] tool = "create-epic" -> {"name", "description"}
      [] OTHER -> {}

\* the "enum" of a property, as a set of strings; {} when it declares none
Enum(tool, key) ==
    CASE tool = "create-story" /\ key = "story_type" -> {"feature", "bug", "chore"}
      [] tool \in {"list-objectives", "create-objective"} /\ key = "status" -> {"active", "draft", "closed"}
      [] tool = "list-epics" /\ key = "status" -> {"to do", "in progress", "done"}
      [] OTHER -> {}

\* the "type" of a property
TypeOf(key) == IF key \in {"project_id", "milestone_id"} THEN "num" ELSE "str"

\* --------------------------------------------------------------- dispatcher
\* the bound of the slice stories[:10]
StoryLimit == 10

First_all(s, k) == s

\* s[:k]
First(s, k) == SubSeq(s, 1, IF Len(s) < k THEN Len(s) ELSE k)

Text(t) == [type |-> "text", text |-> t]

NoResult == [raised |-> FALSE, exc |-> NoExc, blocks |-> <<>>]

\* return blocks
Returned(calls, blocks) ==
    [requests |-> calls, result |-> [raised |-> FALSE, exc |-> NoExc, blocks |-> blocks]]

\* an exception leaves the function
Raised(calls, e) ==
    [requests |-> calls, result |-> [raised |-> TRUE, exc |-> e, blocks |-> <<>>]]

HasKeyErr(fs) == \E i \in 1..Len(fs) : IsKeyErr(fs[i])

\* the KeyError of the first record that a loop or comprehension fails on
FirstKeyErr(fs) ==
    LET i == CHOOSE i \in 1..Len(fs) : IsKeyErr(fs[i]) /\ \A j \in 1..(i - 1) : ~IsKeyErr(fs[j])
    IN  Exc("KeyError", "MissingField", <<Lit(fs[i].keyerror)>>)

\* header + "\n".join(formatted), or the KeyError raised while formatting
Listing(calls, header, formatted) ==
    IF HasKeyErr(formatted) THEN Raised(calls, FirstKeyErr(formatted))
    ELSE Returned(calls, <<Text(<<Lit(header)>> \o Join(formatted, Lit("\n")))>>)

\* f"Created new ...:\n\n{format_x(new)}", or the KeyError raised while formatting
Created(calls, header, formatted) ==
    IF IsKeyErr(formatted)
    THEN Raised(calls, Exc("KeyError", "MissingField", <<Lit(formatted.keyerror)>>))
    ELSE Returned(calls, <<Text(<<Lit(header), formatted>>)>>)

\* the KeyError of arguments[k] for the first k of order that is missing
MissingArgument(args, order) ==
    LET i == CHOOSE i \in 1..Len(order) :
                 order[i] \notin DOMAIN args /\ \A j \in 1..(i - 1) : order[j] \in DOMAIN args
    IN  Exc("KeyError", "InvalidInput", <<Lit(order[i])>>)

search_stories(args, reply) ==
    LET query == GetArg(args, "query")
        params == Dict([query |-> query])
        out == make_shortcut_request("GET", EP_search_stories, NoDict, params, reply)
        calls == <<Call("GET", EP_search_stories, NoDict, params, out)>>
    IN  IF ~out.ok THEN Raised(calls, out.exc)
        ELSE LET stories == Get(out.value, "data", <<>>)
                 shown == First(stories, StoryLimit)
             IN  IF Len(stories) = 0
                 THEN Returned(calls, <<Text(<<Lit("No stories found matching query: "), Render(query)>>)>>)
                 ELSE Listing(calls, "Found stories:\n\n",
                              [i \in 1..Len(shown) |-> format_story(shown[i])])

create_story(args, reply) ==
    LET order == <<"name", "description", "story_type", "project_id">>
    IN  IF \E i \in 1..Len(order) : order[i] \notin DOMAIN args
        THEN Raised(<<>>, MissingArgument(args, order))
        ELSE LET story_data == Dict([name |-> args["name"], description |-> args["description"],
                                     story_type |-> args["story_type"], project_id |-> args["project_id"]])
                 out == make_shortcut_request("POST", EP_stories, story_data, NoDict, reply)
                 calls == <<Call("POST", EP_stories, story_data, NoDict, out)>>
             IN  IF ~out.ok THEN Raised(calls, out.exc)
                 ELSE Created(calls, "Created new story:\n\n", format_story(out.value))

list_projects(args, reply) ==
    LET out == make_shortcut_request("GET", EP_projects, NoDict, NoDict, reply)
        calls == <<Call("GET", EP_projects, NoDict, NoDict, out)>>
    IN  IF ~out.ok THEN Raised(calls, out.exc)
        ELSE Listing(calls, "Available projects:\n\n",
                     [i \in 1..Len(out.value) |-> format_project(out.value[i])])

list_workflows(args, reply) ==
    LET out == make_shortcut_request("GET", EP_workflows, NoDict, NoDict, reply)
        calls == <<Call("GET", EP_workflows, NoDict, NoDict, out)>>
    IN  IF ~out.ok THEN Raised(calls, out.exc)
        ELSE Listing(calls, "Available workflows and states:\n\n",
                     [i \in 1..Len(out.value) |-> format_workflow(out.value[i])])

\* params = {}; if status := arguments.get("status"): params["status"] = status
StatusParams(args) ==
    IF Truthy(GetArg(args, "status")) THEN Dict([status |-> GetArg(args, "status")])
    ELSE Dict(EmptyDict)

list_objectives(args, reply) ==
    LET params == StatusParams(args)
        out == make_shortcut_request("GET", EP_objectives, NoDict, params, reply)
        calls == <<Call("GET", EP_objectives, NoDict, params, out)>>
    IN  IF ~out.ok THEN Raised(calls, out.exc)
        ELSE IF Len(out.value) = 0
        THEN Returned(calls, <<Text(<<Lit("No objectives found")>>)>>)
        ELSE Listing(calls, "Objectives:\n\n",
                     [i \in 1..Len(out.value) |-> format_objective(out.value[i])])

create_objective(args, reply) ==
    LET order == <<"name", "description", "status">>
    IN  IF \E i \in 1..Len(order) : order[i] \notin DOMAIN args
        THEN Raised(<<>>, MissingArgument(args, order))
        ELSE LET objective_data == Dict([name |-> args["name"], description |-> args["description"],
                                         status |-> args["status"]])
                 out == make_shortcut_request("POST", EP_objectives, objective_data, NoDict, reply)
                 calls == <<Call("POST", EP_objectives, objective_data, NoDict, out)>>
             IN  IF ~out.ok THEN Raised(calls, out.exc)
                 ELSE Created(calls, "Created new objective:\n\n", format_objective(out.value))

list_epics(args, reply) ==
    LET params == StatusParams(args)
        out == make_shortcut_request("GET", EP_epics, NoDict, params, reply)
        calls == <<Call("GET", EP_epics, NoDict, params, out)>>
    IN  IF ~out.ok THEN Raised(calls, out.exc)
        ELSE IF Len(out.value) = 0
        THEN Returned(calls, <<Text(<<Lit("No epics found")>>)>>)
        ELSE Listing(calls, "Epics:\n\n",
                     [i \in 1..Len(out.value) |-> format_epic(out.value[i])])

\* epic_data, with milestone_id added under "if milestone_id := arguments.get(...)"
EpicData(args) ==
    IF Truthy(GetArg(args, "milestone_id"))
    THEN Dict([name |-> args["name"], description |-> args["description"],
               milestone_id |-> GetArg(args, "milestone_id")])
    ELSE Dict([name |-> args["name"], description |-> args["description"]])

create_epic(args, reply) ==
    LET order == <<"name", "description">>
    IN  IF \E i \in 1..Len(order) : order[i] \notin DOMAIN args
        THEN Raised(<<>>, MissingArgument(args, order))
        ELSE LET epic_data == EpicData(args)
                 out == make_shortcut_request("POST", EP_epics, epic_data, NoDict, reply)
                 calls == <<Call("POST", EP_epics, epic_data, NoDict, out)>>
             IN  IF ~out.ok THEN Raised(calls, out.exc)
                 ELSE Created(calls, "Created new epic:\n\n", format_epic(out.value))

\* the if/elif chain inside the try block
Dispatch(nm, args, reply) ==
    CASE nm = "search-stories" -> search_stories(args, reply)
      [] nm = "create-story" -> create_story(args, reply)
      [] nm = "list-projects" -> list_projects(args, reply)
      [] nm = "list-workflows" -> list_workflows(args, reply)
      [] nm = "list-objectives" -> list_objectives(args, reply)
      [] nm = "create-objective" -> create_objective(args, reply)
      [] nm = "list-epics" -> list_epics(args, reply)
      [] nm = "create-epic" -> create_epic(args, reply)
      [] OTHER -> Raised(<<>>, Exc("ValueError", "UnknownTool", <<Lit("Unknown tool: "), Lit(nm)>>))

\* handle_call_tool(name, arguments) when the remote would answer with reply
handle_call_tool(nm, args, reply) ==
    IF ~DictTruthy(args)
    THEN Raised(<<>>, Exc("ValueError", "InvalidInput", <<Lit("Missing arguments")>>))
    ELSE LET r == Dispatch(nm, args.map, reply)
         IN  IF r.result.raised /\ IsHTTPError(r.result.exc)
             THEN Returned(r.requests, <<Text(<<Lit("API request failed: ")>> \o r.result.exc.msg)>>)
             ELSE r

\* ------------------------------------------------------------------- inputs
UnknownNames == {"unknown-tool"}

Names == ToolNames \cup UnknownNames

CreateTools == {"create-story", "create-objective", "create-epic"}

ListTools == {"search-stories", "list-projects", "list-workflows", "list-objectives", "list-epics"}

\* the values an argument is drawn from; "other" is a key no schema declares
Values(key) ==
    CASE key = "query" -> {Str("login bug"), Str("x")}
      [] key = "name" -> {Str("A")}
      [] key = "description" -> {Str("B")}
      [] key = "story_type" -> {Str("bug"), Str("urgent")}
      [] key = "project_id" -> {Num(7)}
      [] key = "status" -> {Str("active")}
      [] key = "milestone_id" -> {Num(0), Num(5)}
      [] OTHER -> {Num(1)}

Extend(m, k, v) == [x \in DOMAIN m \cup {k} |-> IF x = k THEN v ELSE m[x]]

RECURSIVE Maps(_)
\* every map from a subset of keys to values of its keys
Maps(keys) ==
    IF keys = {} THEN {EmptyDict}
    ELSE LET k == CHOOSE x \in keys : TRUE
             rest == Maps(keys \ {k})
         IN  rest \cup {Extend(m, k, v) : m \in rest, v \in Values(k)}

\* the argument maps a tool is called with: absent, empty, partial, complete
ArgumentsOf ==
    [nm \in Names |-> {NoDict} \cup {Dict(m) : m \in Maps(Properties(nm) \cup
                                          (IF nm \in CreateTools THEN {} ELSE {"other"}))}]

\* arguments satisfies the inputSchema of tool nm (an absent map counts as empty)
ValidArgs(nm, args) ==
    /\ Required(nm) \subseteq DOMAIN args.map
    /\ \A k \in DOMAIN args.map \cap Properties(nm) :
          /\ args.map[k].t = TypeOf(k)
          /\ Enum(nm, k) # {} => args.map[k].s \in Enum(nm, k)

\* the replies the remote can give to the request of a tool, if it sends one
RepliesOf(nm, args) ==
    IF \A i \in 1..Len(handle_call_tool(nm, args, StatusReply).requests) :
          ~handle_call_tool(nm, args, StatusReply).requests[i].sent
    THEN {StatusReply}
    ELSE IF nm \in CreateTools THEN OneReplies ELSE ListReplies

NumPosts(calls) == Cardinality({i \in 1..Len(calls) : calls[i].method = "POST"})

\* ------------------------------------------------------------------ actions
Init ==
    /\ token \in BOOLEAN
    /\ op = "init"
    /\ name = ""
    /\ arguments = NoDict
    /\ requests = <<>>
    /\ result = NoResult
    /\ steps = 0
    /\ creates = 0
    /\ posts = 0
    /\ valid = TRUE

\* one direct call of make_shortcut_request
Request ==
    \E method \in Methods, endpoint \in Endpoints :
      \E reply \in (IF make_shortcut_request(method, endpoint, NoDict, NoDict, StatusReply).sent
                    THEN {OkReply(0, 0), StatusReply, TimeoutReply} ELSE {StatusReply}) :
        LET out == make_shortcut_request(method, endpoint, NoDict, NoDict, reply)
        IN  /\ steps < MaxCalls
            /\ op' = "request"
            /\ name' = ""
            /\ arguments' = NoDict
            /\ requests' = <<Call(method, endpoint, NoDict, NoDict, out)>>
            /\ result' = [raised |-> ~out.ok, exc |-> out.exc, blocks |-> <<>>]
            /\ steps' = steps + 1
            /\ UNCHANGED <<token, creates, posts, valid>>

\* one invocation of handle_call_tool
CallTool ==
    \E nm \in Names :
      \E args \in ArgumentsOf[nm] :
        \E reply \in RepliesOf(nm, args) :
          LET r == handle_call_tool(nm, args, reply)
          IN  /\ steps < MaxCalls
              /\ op' = "callTool"
              /\ name' = nm
              /\ arguments' = args
              /\ requests' = r.requests
              /\ result' = r.result
              /\ steps' = steps + 1
              /\ creates' = creates + (IF nm \in CreateTools /\ ValidArgs(nm, args) THEN 1 ELSE 0)
              /\ posts' = posts + NumPosts(r.requests)
              /\ valid' = (valid /\ nm \in ToolNames /\ ValidArgs(nm, args))
              /\ UNCHANGED token

Next == Request \/ CallTool

Spec == Init /\ [][Next]_vars

\* ------------------------------------------------------------------- claims
\* x is a suffix of s, by concatenation
HasSuffix(s, x) == \E k \in 0..Len(s) : s = SubSeq(s, 1, k) \o x

InEnvelope(c) ==
    \/ c.method = "GET"
    \/ c.method = "POST" /\ \E x \in {EP_stories, EP_epics, EP_objectives} : HasSuffix(c.endpoint, x)

\* C1: a call of the API client reaches the network only if its method is GET,
\* or POST on an endpoint ending with stories, epics or objectives; every other
\* pair fails with PolicyViolation without network activity; POST on stories
\* passes the policy check.
C1_SafetyEnvelope ==
    \A i \in 1..Len(requests) :
        /\ requests[i].sent => InEnvelope(requests[i])
        /\ ~InEnvelope(requests[i]) => requests[i].fault = "PolicyViolation" /\ ~requests[i].sent
        /\ InEnvelope(requests[i]) => requests[i].fault # "PolicyViolation"

C1_Witness ==
    /\ op = "request"
    /\ requests[1].method = "POST"
    /\ requests[1].endpoint = EP_workflows
    /\ requests[1].fault = "PolicyViolation"
    /\ ~requests[1].sent

\* the last operation was an invocation of the dispatcher
Invoked == op = "callTool"

\* the last invocation failed: an exception left it, or the API client raised
Failed == result.raised \/ \E i \in 1..Len(requests) : ~requests[i].ok

\* C2: every invocation returns a non-empty sequence of Text blocks and lets no
\* fault escape; a failed invocation returns exactly one Text block.
C2_NoFaultEscapes ==
    Invoked =>
        /\ ~result.raised
        /\ Len(result.blocks) >= 1
        /\ \A i \in 1..Len(result.blocks) : result.blocks[i].type = "text"
        /\ Failed => Len(result.blocks) = 1

\* C3: a RemoteError, PolicyViolation or ConfigurationError raised by the API
\* client comes back as a single Text block that begins with "API request
\* failed:" and carries the message of the error.
C3_ApiErrorsBecomeText ==
    (Invoked /\ \E i \in 1..Len(requests) :
                   requests[i].fault \in {"RemoteError", "PolicyViolation", "ConfigurationError"}) =>
        /\ ~result.raised
        /\ Len(result.blocks) = 1
        /\ Len(result.blocks[1].text) >= 2
        /\ result.blocks[1].text[1] = Lit("API request failed: ")

\* C4: an invocation of a tool with required fields whose non-empty argument map
\* lacks one of them fails with InvalidInput, returns one error Text block and
\* makes no call of the API client.
C4_MissingRequiredField ==
    (Invoked /\ name \in ToolNames /\ DictTruthy(arguments)
             /\ ~(Required(name) \subseteq DOMAIN arguments.map)) =>
        /\ requests = <<>>
        /\ ~result.raised
        /\ Len(result.blocks) = 1

\* C5: an invocation of a name outside the catalog with any argument map, the
\* empty one included, fails with UnknownTool carrying the name and makes no
\* call of the API client.
C5_UnknownTool ==
    (Invoked /\ name \notin ToolNames /\ arguments.present) =>
        /\ requests = <<>>
        /\ result.exc.fault = "UnknownTool"
        /\ \E i \in 1..Len(result.exc.msg) : result.exc.msg[i] = Lit(name)

\* C6: an invocation of a catalog tool with valid arguments makes exactly one
\* call of the API client, GET for search-stories and list-*, POST for create-*;
\* after k valid create-* invocations exactly k POST calls were made.
C6_ExactlyOneRequest ==
    /\ (Invoked /\ name \in ToolNames /\ ValidArgs(name, arguments)) =>
          /\ Len(requests) = 1
          /\ requests[1].method = (IF name \in CreateTools THEN "POST" ELSE "GET")
    /\ valid => posts = creates

\* C7: an absent or empty argument map fails with InvalidInput exactly when the
\* tool declares a required field; a tool that declares none accepts it, makes
\* its GET request and returns its listing.
C7_EmptyArguments ==
    (Invoked /\ name \in ToolNames /\ ~DictTruthy(arguments)) =>
        IF Required(name) # {}
        THEN result.exc.fault = "InvalidInput" /\ requests = <<>>
        ELSE /\ result.exc.fault # "InvalidInput"
             /\ Len(requests) = 1
             /\ requests[1].method = "GET"

\* the records of the 2xx reply to the request of a list or search tool
Returned_records ==
    IF name = "search-stories" THEN Get(requests[1].value, "data", <<>>) ELSE requests[1].value

\* the last invocation was a list or search tool whose request got a 2xx reply
Listed == Invoked /\ name \in ListTools /\ Len(requests) = 1 /\ requests[1].ok

NoResultsMessages ==
    {"No stories found matching query: ", "No objectives found", "No epics found",
     "No projects found", "No workflows found"}

\* C8: when the remote returns a zero-length list, a list or search tool returns
\* a single Text block that is a "no results" message (for search-stories the
\* message followed by the query), and no fault.
C8_EmptyListMessage ==
    (Listed /\ Len(Returned_records) = 0) =>
        /\ ~result.raised
        /\ Len(result.blocks) = 1
        /\ "lit" \in DOMAIN result.blocks[1].text[1]
        /\ result.blocks[1].text[1].lit \in NoResultsMessages
        /\ name = "search-stories" =>
              result.blocks[1].text = <<Lit("No stories found matching query: "),
                                        Render(GetArg(arguments.map, "query"))>>

\* the formatter a list or search tool applies to a record
FormatterOf(nm, record) ==
    CASE nm = "search-stories" -> format_story(record)
      [] nm = "list-projects" -> format_project(record)
      [] nm = "list-workflows" -> format_workflow(record)
      [] nm = "list-objectives" -> format_objective(record)
      [] OTHER -> format_epic(record)

\* the formatted records inside a text, in order
Blocks(text) == SelectSeq(text, LAMBDA p : "kind" \in DOMAIN p)

\* C9: from n returned records search-stories formats exactly min(n, 10), the
\* first ones in the returned order; every other list tool formats all n, one
\* block per record in the returned order.
C9_Truncation ==
    (Listed /\ ~result.raised) =>
        LET n == Len(Returned_records)
            expected == IF name = "search-stories" /\ n > 10 THEN 10 ELSE n
            shown == Blocks(result.blocks[1].text)
        IN  /\ Len(shown) = expected
            /\ \A i \in 1..expected : shown[i] = FormatterOf(name, Returned_records[i])

C9_Witness ==
    /\ Listed
    /\ ~result.raised
    /\ name = "search-stories"
    /\ Len(Returned_records) = 11
    /\ Len(Blocks(result.blocks[1].text)) = 10

\* C10: the JSON body of a create-* POST holds every required field with the
\* supplied value (create-story: exactly its four fields), and holds the
\* optional milestone_id of create-epic, with the supplied value, exactly when
\* the arguments supply it.
C10_BodyFromArguments ==
    (Invoked /\ name \in CreateTools /\ Len(requests) = 1) =>
        LET body == requests[1].json.map
        IN  /\ requests[1].json.present
            /\ \A k \in Required(name) : k \in DOMAIN body /\ body[k] = arguments.map[k]
            /\ name = "create-story" => DOMAIN body = {"name", "description", "story_type", "project_id"}
            /\ name = "create-epic" =>
                  /\ "milestone_id" \in DOMAIN body <=> "milestone_id" \in DOMAIN arguments.map
                  /\ "milestone_id" \in DOMAIN body => body["milestone_id"] = arguments.map["milestone_id"]

====
